---- MODULE Spec2Model ----
(***************************************************************************)
(* Model of the compression middleware of src/index.js: one response       *)
(* session (the closure of lines 63-271), the patched res.write / res.end  *)
(* / res.on / res.flush, the onHeaders decision, and the bridge between    *)
(* the zlib stream and the native response.                                *)
(*                                                                         *)
(* The native http.ServerResponse (_write, _end, _on, _implicitHeader),    *)
(* the zlib transform and the accepts negotiator are collaborators: they   *)
(* are modelled by the contract the source relies on (the error names in   *)
(* the comments of lines 84-111 and 141, pause/resume/'data'/'end').       *)
(***************************************************************************)
EXTENDS Integers, Sequences, FiniteSets, TLC

\* ------------------------------------------------------------- bounds

\* proxy calls (write / end / on / flush / writeHead) made by the application,
\* the close of the socket counted with them
MaxCalls == 3

\* ---------------------------------------------------------- constants

\* JavaScript undefined for a numeric slot (length, Content-Length, threshold)
Undefined == -1

\* threshold = 1024 when the option is absent
DefaultThreshold == 1024

\* the codecs of line 226, in the fixed preference order
Encodings == <<"br", "gzip", "deflate", "identity">>

NoChunk == [kind |-> "undefined", len |-> 0]

NullChunk == [kind |-> "null", len |-> 0]

BadChunk == [kind |-> "object", len |-> 0]

\* valid chunks: a one-byte string and a 1024-byte Uint8Array
ValidChunks == {[kind |-> "string", len |-> 1], [kind |-> "buffer", len |-> 1024]}

Handlers == {"h1", "h2"}

\* the res.on(type, listener) calls the application makes
Registrations == {<<"drain", "h1">>, <<"drain", "h2">>, <<"close", "h1">>}

\* opts.threshold as given by the application
ThresholdOpts == {Undefined, 0}

FilterOpts == {"default", "true", "false"}

ContentTypes == {"undefined", "text/html", "image/png"}

CacheControls == {"undefined", "no-transform", "public"}

ContentLengths == {Undefined, 0, 1, 1024}

ContentEncodings == {"undefined", "gzip"}

Methods == {"GET", "HEAD"}

\* the client's acceptable encodings, most preferred first
AcceptCases ==
  { <<>>,
    <<"identity">>,
    <<"gzip", "deflate", "identity">>,
    <<"deflate", "gzip", "identity">>,
    <<"deflate", "identity", "gzip">>,
    <<"deflate", "identity">>,
    <<"br", "gzip", "identity">> }

VARIABLES
  opts,        \* [threshold, filter]: the options of compression(options)
  req,         \* [method, accept]
  ended,       \* line 64
  length,      \* line 65
  listeners,   \* line 66: [null, items]
  stream,      \* line 67: "none" or the codec of the installed stream
  res,         \* the native response: flags, headers, listeners, bytes sent
  zs,          \* the zlib stream: input, pending output, flow state
  ev,          \* the last call or event and its outcome
  decisions,   \* runs of onResponseHeaders
  nCalls,      \* proxy calls (and socket closes) so far
  app,         \* the headers as the application set them
  regs,        \* 'drain' registrations made on the proxy: [early, late]
  taken        \* the chunks of the write / end calls that returned without error

vars ==
  <<opts, req, ended, length, listeners, stream, res, zs, ev, decisions, nCalls,
    app, regs, taken>>

\* ------------------------------------------------- the state as a record

S ==
  [ opts |-> opts, req |-> req, ended |-> ended, length |-> length,
    listeners |-> listeners, stream |-> stream, res |-> res, zs |-> zs,
    decisions |-> decisions, err |-> "none", rv |-> TRUE ]

Set(s) ==
  /\ opts' = s.opts
  /\ req' = s.req
  /\ ended' = s.ended
  /\ length' = s.length
  /\ listeners' = s.listeners
  /\ stream' = s.stream
  /\ res' = s.res
  /\ zs' = s.zs
  /\ decisions' = s.decisions

Event(op, chunk, s, called) ==
  [op |-> op, chunk |-> chunk, err |-> s.err, rv |-> s.rv, called |-> called]

\* --------------------------------------------------------- pure helpers

IsChunk(c) == c.kind \in {"string", "buffer"}

\* bytes.parse(opts.threshold), then the default
threshold(o) == IF o.threshold = Undefined THEN DefaultThreshold ELSE o.threshold

chunkLength(chunk) == IF ~IsChunk(chunk) THEN 0 ELSE chunk.len

toBuffer(chunk) == [kind |-> "buffer", len |-> chunk.len]

\* compressible(type) of the content-type table
compressible(type) == type = "text/html"

shouldCompress(s) ==
  ~(s.res.contentType = "undefined" \/ ~compressible(s.res.contentType))

filter(s) ==
  CASE s.opts.filter = "default" -> shouldCompress(s)
    [] s.opts.filter = "true" -> TRUE
    [] OTHER -> FALSE

\* shouldTransform that ignores the Cache-Control header
shouldTransformAlways(s) == TRUE

shouldTransform(s) ==
  s.res.cacheControl = "undefined" \/ ~(s.res.cacheControl = "no-transform")

InSeq(x, q) == \E i \in 1..Len(q) : q[i] = x

\* accept.encoding(list): the client's most preferred encoding among list
acceptEncoding(accept, list) ==
  LET hits == {i \in 1..Len(accept) : InSeq(accept[i], list)}
  IN IF hits = {} THEN "false"
     ELSE accept[CHOOSE i \in hits : \A j \in hits : i <= j]

\* JavaScript !x for a header value that is a number or undefined
Falsy(x) == x = Undefined \/ x = 0

\* JavaScript x < y on numbers where undefined compares false
Less(x, y) == x # Undefined /\ x < y

\* --------------------------------------------------------- the wire

Raw(chunk) == [enc |-> "identity", kind |-> chunk.kind, len |-> chunk.len]

Encoded(method, chunk) == [enc |-> method, kind |-> chunk.kind, len |-> chunk.len]

Trailer(method) == [enc |-> method, kind |-> "trailer", len |-> 0]

Eof == [enc |-> "eof", kind |-> "eof", len |-> 0]

\* the decoder of method over a received body: the payloads in order when every
\* item is of that codec and the body is closed by its one trailer, else a failure
Decode(method, body) ==
  IF /\ body # <<>>
     /\ \A i \in 1..Len(body) : body[i].enc = method
     /\ \A i \in 1..Len(body) : body[i].kind = "trailer" <=> i = Len(body)
    THEN [i \in 1..Len(body) - 1 |-> [kind |-> body[i].kind, len |-> body[i].len]]
    ELSE <<[kind |-> "failure", len |-> 0]>>

\* ----------------------------------------------- listeners (lines 279-283)

\* on.apply(target, [type, listener]) of an EventEmitter
emitterOn(reg, item) == Append(reg, item)

RECURSIVE addAll(_, _, _)
addAll(reg, items, i) ==
  IF i > Len(items) THEN reg ELSE addAll(emitterOn(reg, items[i]), items, i + 1)

\* addListeners(stream, on, listeners): target is "res" or "stream"
addListeners(s, target, items) ==
  IF target = "stream"
    THEN [s EXCEPT !.zs.on = addAll(@, items, 1)]
    ELSE [s EXCEPT !.res.on = addAll(@, items, 1)]

\* nocompress that drops the buffered listeners instead of replaying them
nocompressForget(s) == [s EXCEPT !.listeners = [null |-> TRUE, items |-> <<>>]]

nocompress(s) ==
  [addListeners(s, "res", s.listeners.items) EXCEPT
     !.listeners = [null |-> TRUE, items |-> <<>>]]

\* ------------------------------------------ the decision (lines 188-268)

negotiate(s) ==
  LET method == acceptEncoding(s.req.accept, Encodings)
  IN IF method = "deflate" /\ acceptEncoding(s.req.accept, <<"gzip">>) # "false"
       THEN acceptEncoding(s.req.accept, <<"gzip", "identity">>)
       ELSE method

\* the installation without line 252
installKeepLength(s, method) ==
  LET s1 == addListeners([s EXCEPT !.stream = method], "stream", s.listeners.items)
      s2 == [s1 EXCEPT !.res.contentEncoding = method]
      s3 == [s2 EXCEPT !.zs.on = emitterOn(emitterOn(@, <<"data", "onStreamData">>),
                                           <<"end", "onStreamEnd">>)]
  IN [s3 EXCEPT !.res.on = emitterOn(@, <<"drain", "onResponseDrain">>)]

\* lines 239-267: the stream, the buffered listeners, the headers, the bridge
install(s, method) ==
  LET s1 == addListeners([s EXCEPT !.stream = method], "stream", s.listeners.items)
      s2 == [s1 EXCEPT !.res.contentEncoding = method, !.res.contentLength = Undefined]
      s3 == [s2 EXCEPT !.zs.on = emitterOn(emitterOn(@, <<"data", "onStreamData">>),
                                           <<"end", "onStreamEnd">>)]
  IN [s3 EXCEPT !.res.on = emitterOn(@, <<"drain", "onResponseDrain">>)]

\* line 202 left out
varyNever(s) == s

\* vary(res, 'Accept-Encoding')
vary(s) == [s EXCEPT !.res.vary = TRUE]

\* line 205 with the Content-Length header only
belowThresholdHeaderOnly(s) == Less(s.res.contentLength, threshold(s.opts))

\* line 205 reading an unknown size as a size below the threshold
belowThresholdOrUnknown(s) ==
  \/ Less(s.res.contentLength, threshold(s.opts)) \/ Less(s.length, threshold(s.opts))
  \/ (s.res.contentLength = Undefined /\ s.length = Undefined)

belowThreshold(s) ==
  Less(s.res.contentLength, threshold(s.opts)) \/ Less(s.length, threshold(s.opts))

onResponseHeaders(s0) ==
  LET s == [s0 EXCEPT !.decisions = @ + 1]
  IN IF ~filter(s) THEN nocompress(s)
     ELSE IF ~shouldTransform(s) THEN nocompress(s)
     ELSE LET v == vary(s)
          IN IF belowThreshold(v) THEN nocompress(v)
             ELSE IF v.res.contentEncoding # "undefined" /\ v.res.contentEncoding # "identity"
               THEN nocompress(v)
             ELSE IF v.req.method = "HEAD" THEN nocompress(v)
             ELSE LET method == negotiate(v)
                  IN IF method = "false" \/ method = "identity"
                       THEN nocompress(v)
                       ELSE install(v, method)

\* ------------------------------------ the native response (lines 69-71)

\* a header listener that is not one-shot
implicitHeaderAlways(s) == [onResponseHeaders(s) EXCEPT !.res.header = TRUE]

\* res._implicitHeader() / res.writeHead(): on-headers fires the listener once
implicitHeader(s) ==
  IF s.res.header THEN s ELSE [onResponseHeaders(s) EXCEPT !.res.header = TRUE]

\* _write.call(res, chunk): item is what reaches the socket, full the socket's answer
nativeWrite(s, chunk, item, full) ==
  IF chunk.kind = "null" THEN [s EXCEPT !.err = "ERR_STREAM_NULL_VALUES", !.rv = FALSE]
  ELSE IF ~IsChunk(chunk) THEN [s EXCEPT !.err = "ERR_INVALID_ARG_TYPE", !.rv = FALSE]
  ELSE IF s.res.finished THEN [s EXCEPT !.err = "ERR_STREAM_WRITE_AFTER_END", !.rv = FALSE]
  ELSE IF s.res.destroyed THEN [s EXCEPT !.err = "ERR_STREAM_DESTROYED", !.rv = FALSE]
  ELSE LET s1 == implicitHeader(s)
           nd == s1.res.needDrain \/ full
       IN [s1 EXCEPT !.res.wire = Append(@, item), !.res.needDrain = nd,
                     !.err = "none", !.rv = ~nd]

\* _write.call(fakeRes, chunk) of lines 105-112: a fresh response with the flags set
fakeWrite(s, chunk, fakeFinished, fakeDestroyed) ==
  IF fakeFinished THEN [s EXCEPT !.err = "ERR_STREAM_WRITE_AFTER_END", !.rv = FALSE]
  ELSE IF fakeDestroyed THEN [s EXCEPT !.err = "ERR_STREAM_DESTROYED", !.rv = FALSE]
  ELSE [s EXCEPT !.err = "none", !.rv = TRUE]

\* _end.call(res, chunk): on a destroyed, unfinished response the outcome is the
\* runtime's (dead): the destroyed error, or the end performed on the dead socket
nativeEnd(s, chunk, full, dead) ==
  IF s.res.finished
    THEN [s EXCEPT !.err = IF IsChunk(chunk) THEN "ERR_STREAM_WRITE_AFTER_END"
                           ELSE "ERR_STREAM_ALREADY_FINISHED",
                   !.rv = FALSE]
  ELSE IF s.res.destroyed
    THEN IF dead = "rejected"
           THEN [s EXCEPT !.err = "ERR_STREAM_DESTROYED", !.rv = FALSE]
           ELSE [implicitHeader(s) EXCEPT !.res.finished = TRUE, !.err = "none", !.rv = TRUE]
  ELSE LET s1 == implicitHeader(s)
           body == IF IsChunk(chunk) THEN <<Raw(chunk)>> ELSE <<>>
           nd == s1.res.needDrain \/ (IsChunk(chunk) /\ full)
       IN [s1 EXCEPT !.res.wire = @ \o body \o <<Eof>>, !.res.needDrain = nd,
                     !.res.finished = TRUE, !.err = "none", !.rv = TRUE]

\* _on.call(res, type, listener)
nativeOn(s, type, listener) ==
  [s EXCEPT !.res.on = emitterOn(@, <<type, listener>>)]

\* ------------------------------------------------------ the zlib stream

\* stream.write(buffer): sfull is the stream's own high-water answer
streamWrite(s, buf, sfull) ==
  LET nd == s.zs.needDrain \/ sfull
  IN [s EXCEPT !.zs.in = Append(@, buf),
               !.zs.pending = Append(@, Encoded(s.stream, buf)),
               !.zs.needDrain = nd, !.err = "none", !.rv = ~nd]

\* stream.end(): end of input; the codec's trailer becomes pending output
streamEnd(s) ==
  [s EXCEPT !.zs.ended = @ + 1,
            !.zs.pending = Append(@, Trailer(s.stream)),
            !.err = "none", !.rv = TRUE]

streamOn(s, type, listener) ==
  [s EXCEPT !.zs.on = emitterOn(@, <<type, listener>>)]

streamPause(s) == [s EXCEPT !.zs.paused = TRUE]

streamResume(s) == [s EXCEPT !.zs.paused = FALSE]

\* ------------------------------------------- the proxy (lines 74-180)

\* line 102 without the session's own ended flag
writeClosedNoEnded(s) == s.res.destroyed \/ s.res.finished

\* line 102
writeClosed(s) == s.res.destroyed \/ s.res.finished \/ s.ended

\* lines 106-110: fakeRes.finished
fakeFinished(s) == ~s.res.destroyed

\* lines 119-121 always taking the native branch
routeWriteRaw(s, chunk, full, sfull) == nativeWrite(s, chunk, Raw(chunk), full)

\* lines 119-121
routeWrite(s, chunk, full, sfull) ==
  IF s.stream # "none"
    THEN streamWrite(s, toBuffer(chunk), sfull)
    ELSE nativeWrite(s, chunk, Raw(chunk), full)

\* write without the chunk tests of lines 83-91
writeUnchecked(s, chunk, full, sfull) ==
  IF writeClosed(s) THEN fakeWrite(s, chunk, fakeFinished(s), TRUE)
  ELSE routeWrite(implicitHeader(s), chunk, full, sfull)

write(s, chunk, full, sfull) ==
  IF chunk.kind = "null" THEN nativeWrite(s, chunk, Raw(chunk), full)
  ELSE IF ~IsChunk(chunk) THEN nativeWrite(s, chunk, Raw(chunk), full)
  ELSE IF writeClosed(s) THEN fakeWrite(s, chunk, fakeFinished(s), TRUE)
  ELSE routeWrite(implicitHeader(s), chunk, full, sfull)

\* line 139 without the session's own ended flag
endClosedNoEnded(s) == s.res.destroyed \/ s.res.finished

\* line 139
endClosed(s) == s.res.destroyed \/ s.res.finished \/ s.ended

\* line 140: this.finished = ended
markFinished(s) == [s EXCEPT !.res.finished = s.ended]

\* lines 145-152
estimate(s, chunk) ==
  IF s.res.header THEN s
  ELSE implicitHeader(IF Falsy(s.res.contentLength)
                        THEN [s EXCEPT !.length = chunkLength(chunk)]
                        ELSE s)

\* lines 158-164
routeEnd(s, chunk, sfull) ==
  LET s1 == [s EXCEPT !.ended = TRUE]
  IN IF IsChunk(chunk)
       THEN streamEnd(streamWrite(s1, toBuffer(chunk), sfull))
       ELSE streamEnd(s1)

end(s, chunk, full, sfull, dead) ==
  IF endClosed(s) THEN nativeEnd(markFinished(s), chunk, full, dead)
  ELSE LET s1 == estimate(s, chunk)
       IN IF s1.stream = "none"
            THEN nativeEnd(s1, chunk, full, dead)
            ELSE routeEnd(s1, chunk, sfull)

\* res.on without the buffer: every registration goes to the native response
onUnbuffered(s, type, listener) == nativeOn(s, type, listener)

on(s, type, listener) ==
  IF s.listeners.null \/ type # "drain" THEN nativeOn(s, type, listener)
  ELSE IF s.stream # "none" THEN streamOn(s, type, listener)
  ELSE [s EXCEPT !.listeners.items = Append(@, <<type, listener>>)]

\* res.flush(): stream.flush() forces the codec's output, no state of this layer
flush(s) == s

\* ----------------------------------------- the bridge (lines 255-267)

\* onStreamData that ignores the answer of the transport
onStreamDataNoPause(s, item, full) ==
  nativeWrite(s, [kind |-> "buffer", len |-> item.len], item, full)

onStreamData(s, item, full) ==
  LET s1 == nativeWrite(s, [kind |-> "buffer", len |-> item.len], item, full)
  IN IF s1.rv = FALSE THEN streamPause(s1) ELSE s1

onStreamEnd(s, dead) == nativeEnd(s, NoChunk, FALSE, dead)

onResponseDrain(s) == streamResume(s)

\* the listeners registered for type, in registration order
Registered(reg, type) ==
  LET pick == SelectSeq(reg, LAMBDA it : it[1] = type)
  IN [i \in 1..Len(pick) |-> pick[i][2]]

AppHandlers(names) == SelectSeq(names, LAMBDA h : h \in Handlers)

\* ---------------------------------------------------------------- Init

\* the configuration of one response: options, request, headers the application set
AllConfigs ==
  [ threshold : ThresholdOpts, filter : FilterOpts, method : Methods,
    accept : AcceptCases, contentType : ContentTypes, cacheControl : CacheControls,
    contentLength : ContentLengths, contentEncoding : ContentEncodings ]

\* an eligible response to a client that accepts gzip and deflate
Baseline ==
  [ threshold |-> Undefined, filter |-> "default", method |-> "GET",
    accept |-> <<"gzip", "deflate", "identity">>, contentType |-> "text/html",
    cacheControl |-> "undefined", contentLength |-> Undefined,
    contentEncoding |-> "undefined" ]

\* the baseline and every configuration that differs from it in one field
Configs ==
  {c \in AllConfigs : Cardinality({f \in DOMAIN c : c[f] # Baseline[f]}) <= 1}

InitWith(cfgs) ==
  /\ \E c \in cfgs :
       /\ opts = [threshold |-> c.threshold, filter |-> c.filter]
       /\ req = [method |-> c.method, accept |-> c.accept]
       /\ res = [ header |-> FALSE, finished |-> FALSE, destroyed |-> FALSE,
                  needDrain |-> FALSE, wire |-> <<>>, on |-> <<>>,
                  contentType |-> c.contentType, cacheControl |-> c.cacheControl,
                  contentLength |-> c.contentLength,
                  contentEncoding |-> c.contentEncoding, vary |-> FALSE ]
  /\ ended = FALSE
  /\ length = Undefined
  /\ listeners = [null |-> FALSE, items |-> <<>>]
  /\ stream = "none"
  /\ zs = [ in |-> <<>>, pending |-> <<>>, out |-> <<>>, ended |-> 0,
            paused |-> FALSE, done |-> FALSE, needDrain |-> FALSE, on |-> <<>> ]
  /\ ev = [op |-> "init", chunk |-> NoChunk, err |-> "none", rv |-> TRUE, called |-> <<>>]
  /\ decisions = 0
  /\ nCalls = 0
  /\ app = [contentEncoding |-> res.contentEncoding, contentLength |-> res.contentLength,
            vary |-> res.vary]
  /\ regs = [early |-> <<>>, late |-> <<>>]
  /\ taken = <<>>

Init == InitWith(Configs)

\* ------------------------------------------------------------- actions

DeadOutcomes == {"rejected", "performed"}

Call(op, chunk, s) ==
  /\ nCalls < MaxCalls
  /\ Set(s)
  /\ ev' = Event(op, chunk, s, <<>>)
  /\ nCalls' = nCalls + 1
  /\ taken' = IF op \in {"write", "end"} /\ IsChunk(chunk) /\ ~res.destroyed /\ s.err = "none"
                THEN Append(taken, chunk)
                ELSE taken
  /\ UNCHANGED app

Write ==
  /\ \E chunk \in ValidChunks \cup {NullChunk, BadChunk}, full \in BOOLEAN, sfull \in BOOLEAN :
       Call("write", chunk, write(S, chunk, full, sfull))
  /\ UNCHANGED regs

End ==
  /\ \E chunk \in ValidChunks \cup {NoChunk}, full \in BOOLEAN, sfull \in BOOLEAN,
        dead \in DeadOutcomes :
       Call("end", chunk, end(S, chunk, full, sfull, dead))
  /\ UNCHANGED regs

On ==
  \E r \in Registrations :
    LET type == r[1]
        listener == r[2]
    IN /\ Call("on", [kind |-> type, len |-> 0], on(S, type, listener))
       /\ regs' = IF type # "drain" THEN regs
                  ELSE IF decisions = 0 THEN [regs EXCEPT !.early = Append(@, listener)]
                  ELSE [regs EXCEPT !.late = Append(@, listener)]

\* res.flush() with a stream installed (without one the call does nothing)
Flush ==
  /\ stream # "none"
  /\ Call("flush", NoChunk, flush(S))
  /\ UNCHANGED regs

\* the application sends the headers itself (res.writeHead / res.flushHeaders)
WriteHead ==
  /\ ~res.header
  /\ Call("writeHead", NoChunk, implicitHeader(S))
  /\ UNCHANGED regs

\* the socket is closed under the response
Destroy ==
  /\ ~res.destroyed
  /\ nCalls < MaxCalls
  /\ nCalls' = nCalls + 1
  /\ res' = [res EXCEPT !.destroyed = TRUE]
  /\ ev' = [op |-> "destroy", chunk |-> NoChunk, err |-> "none", rv |-> TRUE, called |-> <<>>]
  /\ UNCHANGED <<opts, req, ended, length, listeners, stream, zs, decisions,
                 app, regs, taken>>

\* the stream emits its next chunk of output ('data', flowing mode)
StreamData ==
  /\ InSeq(<<"data", "onStreamData">>, zs.on)
  /\ ~zs.paused
  /\ zs.pending # <<>>
  /\ \E full \in BOOLEAN :
       LET item == Head(zs.pending)
           s0 == [S EXCEPT !.zs.pending = Tail(@), !.zs.out = Append(@, item)]
           s == onStreamData(s0, item, full)
       IN /\ Set(s)
          /\ ev' = Event("data", item, s, <<>>)
  /\ UNCHANGED <<nCalls, app, regs, taken>>

\* the stream has emitted everything after its end of input ('end')
StreamEnd ==
  /\ InSeq(<<"end", "onStreamEnd">>, zs.on)
  /\ ~zs.paused
  /\ zs.ended > 0
  /\ zs.pending = <<>>
  /\ ~zs.done
  /\ \E dead \in DeadOutcomes :
       LET s == onStreamEnd([S EXCEPT !.zs.done = TRUE], dead)
       IN /\ Set(s)
          /\ ev' = Event("streamEnd", NoChunk, s, <<>>)
  /\ UNCHANGED <<nCalls, app, regs, taken>>

\* the socket has drained: 'drain' on the native response
TransportDrain ==
  /\ res.needDrain
  /\ ~res.destroyed
  /\ LET called == Registered(res.on, "drain")
         s0 == [S EXCEPT !.res.needDrain = FALSE]
         s == IF InSeq("onResponseDrain", called) THEN onResponseDrain(s0) ELSE s0
     IN /\ Set(s)
        /\ ev' = Event("drain", NoChunk, s, AppHandlers(called))
  /\ UNCHANGED <<nCalls, app, regs, taken>>

\* the stream's input buffer has drained: 'drain' on the zlib stream
StreamDrain ==
  /\ stream # "none"
  /\ zs.needDrain
  /\ LET s == [S EXCEPT !.zs.needDrain = FALSE]
     IN /\ Set(s)
        /\ ev' = Event("streamDrain", NoChunk, s, AppHandlers(Registered(zs.on, "drain")))
  /\ UNCHANGED <<nCalls, app, regs, taken>>

Next ==
  \/ Write
  \/ End
  \/ On
  \/ Flush
  \/ WriteHead
  \/ Destroy
  \/ StreamData
  \/ StreamEnd
  \/ TransportDrain
  \/ StreamDrain

Spec == Init /\ [][Next]_vars

\* the event loop delivers what the stream has to emit, and the socket drains
Fairness == WF_vars(StreamData) /\ WF_vars(StreamEnd) /\ WF_vars(TransportDrain)

LiveSpec == Init /\ [][Next]_vars /\ Fairness

\* ------------------------------------- the decision over every configuration

\* proxy calls per response when every configuration is explored
MaxDecisionCalls == 1

\* a response of any configuration: the application writes, ends or sends the
\* headers, and the stream and the socket deliver
DecisionCall ==
  /\ nCalls < MaxDecisionCalls
  /\ (Write \/ End \/ WriteHead)

DecisionNext ==
  \/ DecisionCall
  \/ StreamData
  \/ StreamEnd
  \/ TransportDrain
  \/ StreamDrain

DecisionSpec == InitWith(AllConfigs) /\ [][DecisionNext]_vars

\* ========================================================== properties

Count(x, q) == Cardinality({i \in 1..Len(q) : q[i] = x})

\* the body items of the wire, without the end-of-response marks
Body(wire) == SelectSeq(wire, LAMBDA it : it # Eof)

IsPrefix(p, q) == Len(p) <= Len(q) /\ \A i \in 1..Len(p) : p[i] = q[i]

FinishedErrors == {"ERR_STREAM_WRITE_AFTER_END", "ERR_STREAM_ALREADY_FINISHED"}

\* a write() or end() call of the application with a usable chunk (or none, for end)
IsBodyCall(e) == e.op \in {"write", "end"} /\ (IsChunk(e.chunk) \/ e.chunk = NoChunk)

\* C1: with a stream installed and the transport alive, the transport is marked
\* finished, or sent its end-of-response, only once the stream has emitted its
\* 'end' and every chunk the stream emitted is on the wire.
C1_EndOnlyAfterStreamOutput ==
  (stream # "none" /\ ~res.destroyed /\ (res.finished \/ InSeq(Eof, res.wire)))
    => (zs.done /\ zs.pending = <<>> /\ Body(res.wire) = zs.out)

\* C2: an end() call made after an end() was already accepted (natively finished in
\* pass-through mode, ended in compression mode) is answered by the native end with
\* its finished error and sends nothing more.
C2_SecondEndSeesFinished ==
  [][(ev'.op = "end" /\ nCalls' = nCalls + 1 /\ ~res.destroyed /\ (res.finished \/ ended))
       => (ev'.err \in FinishedErrors /\ res'.wire = res.wire)]_vars

\* C3: a write() with a valid chunk on a destroyed, finished or ended response
\* yields the destroyed error exactly when the transport is destroyed and the
\* write-after-end error otherwise, and changes nothing of the session, the
\* stream or the transport (so no decision runs and no chunk is routed).
C3_ClosedWriteMirrorsError ==
  [][(ev'.op = "write" /\ nCalls' = nCalls + 1 /\ IsChunk(ev'.chunk)
        /\ (res.destroyed \/ res.finished \/ ended))
       => /\ ev'.err = IF res.destroyed THEN "ERR_STREAM_DESTROYED"
                       ELSE "ERR_STREAM_WRITE_AFTER_END"
          /\ UNCHANGED <<ended, length, listeners, stream, res, zs, decisions>>]_vars

\* C3 witness: a write after end() was accepted by the stream, before the
\* transport finished, was answered with the write-after-end error.
C3_Witness ==
  /\ ev.op = "write"
  /\ IsChunk(ev.chunk)
  /\ ev.err = "ERR_STREAM_WRITE_AFTER_END"
  /\ stream # "none"
  /\ ended
  /\ ~res.finished
  /\ ~res.destroyed

\* C4: on a destroyed transport every write() and every end() is rejected with the
\* destroyed error. Stated for the calls whose native answer the source fixes:
\* write(), and end() once the session is ended.
C4_DestroyedCallsRejected ==
  [][(IsBodyCall(ev') /\ nCalls' = nCalls + 1 /\ res.destroyed
        /\ (ev'.op = "write" \/ ended))
       => ev'.err = "ERR_STREAM_DESTROYED"]_vars

\* registrations of handler h for 'drain' made on the proxy so far
DrainRegs(h) == Count(h, regs.early) + Count(h, regs.late)

\* C5 as claimed: a 'drain' listener registered before the decision is invoked for
\* every drain of the real transport, in both modes, and for no other event.
C5_InvokedOnTransportDrain ==
  [][/\ (ev'.op = "drain")
          => \A h \in Handlers : Count(h, ev'.called) >= Count(h, regs.early)
     /\ (ev'.op = "streamDrain")
          => \A h \in Handlers : Count(h, regs.early) > 0 => Count(h, ev'.called) = 0]_vars

\* C5 amended: each 'drain' event of the target the decision chose (the transport in
\* pass-through mode, the compression stream in compression mode) invokes a handler
\* exactly once per registration; with a stream installed a transport drain
\* invokes no handler of the application.
C5_InvokedOnRoutedDrain ==
  [][/\ (ev'.op = "drain")
          => \A h \in Handlers :
               Count(h, ev'.called) = IF stream = "none" THEN DrainRegs(h) ELSE 0
     /\ (ev'.op = "streamDrain")
          => \A h \in Handlers : Count(h, ev'.called) = DrainRegs(h)]_vars

\* C5 witness: a handler registered before the decision was invoked by a drain of
\* the compression stream.
C5_Witness ==
  /\ ev.op = "streamDrain"
  /\ regs.early # <<>>
  /\ \A h \in Handlers : Count(h, regs.early) > 0 => Count(h, ev.called) > 0

\* C6: a transport write of the bridge that returns false pauses the stream; the
\* stream is resumed only by a transport drain; and while the transport waits
\* for its drain nothing more is written to it.
C6_BackpressureSafety ==
  [][/\ (ev'.op = "data" /\ ev'.rv = FALSE) => zs'.paused
     /\ (zs.paused /\ ~zs'.paused) => ev'.op = "drain"
     /\ (stream # "none" /\ res.needDrain) => res'.wire = res.wire]_vars

\* C6 witness: the bridge wrote a chunk, the transport reported a full buffer, and
\* the stream is paused with output still pending.
C6_Witness ==
  /\ ev.op = "data"
  /\ ev.err = "none"
  /\ ev.rv = FALSE
  /\ res.needDrain
  /\ zs.paused
  /\ zs.pending # <<>>

\* C7: with a stream installed, once end() was accepted the transport eventually
\* gets every emitted chunk and its end-of-response (unless it is destroyed), and
\* a paused stream is eventually resumed.
C7_BackpressureLiveness ==
  /\ (stream # "none" /\ ended)
       ~> (res.destroyed \/ (zs.done /\ Body(res.wire) = zs.out /\ InSeq(Eof, res.wire)))
  /\ zs.paused ~> (~zs.paused \/ res.destroyed)

Buffers(chunks) == [i \in 1..Len(chunks) |-> toBuffer(chunks[i])]

\* C8: with a stream installed the stream's input is the taken chunks in call
\* order, the wire holds a prefix of the stream's emissions in emission order and
\* nothing raw; without a stream the wire holds the taken chunks unmodified in
\* call order.
C8_Ordering ==
  /\ stream # "none" =>
       /\ zs.in = Buffers(taken)
       /\ IsPrefix(Body(res.wire), zs.out)
       /\ \A i \in 1..Len(res.wire) : res.wire[i].enc # "identity"
  /\ stream = "none" =>
       Body(res.wire) = [i \in 1..Len(taken) |-> Raw(taken[i])]

\* C8 witness: two chunks went through the stream and reached the wire encoded.
C8_Witness ==
  /\ stream # "none"
  /\ Len(taken) >= 2
  /\ taken[1] # taken[2]
  /\ Len(Body(res.wire)) >= 2

\* C9: the decision runs when the headers are first sent and never again; once a
\* decision was made the session's stream (installed or absent) never changes.
C9_DecisionOnce ==
  [][/\ decisions' \in {0, 1}
     /\ res'.header <=> decisions' = 1
     /\ decisions = 1 => (decisions' = 1 /\ stream' = stream)
     /\ decisions = 0 => stream = "none"]_vars

\* C9 witness: a stream was installed by the one decision and two more calls followed.
C9_Witness ==
  /\ decisions = 1
  /\ stream # "none"
  /\ nCalls >= 3
  /\ Len(zs.in) >= 2

\* the body size the decision resolved: the Content-Length header, else the estimate
ResolvedBelow ==
  IF res.contentLength # Undefined THEN res.contentLength < threshold(opts)
  ELSE length # Undefined /\ length < threshold(opts)

RawTaken == [i \in 1..Len(taken) |-> Raw(taken[i])]

\* C11: a response carrying Cache-Control: no-transform gets no stream, the wire
\* holds exactly the chunks written, and the Vary header stays as the application
\* set it, whatever the filter, the size, the method and the client's preferences.
C11_NoTransformUntouched ==
  res.cacheControl = "no-transform" =>
    /\ stream = "none"
    /\ Body(res.wire) = RawTaken
    /\ res.vary = app.vary

\* C11 witness: a no-transform response that every other test would have
\* compressed was decided and its chunk went out raw.
C11_Witness ==
  /\ res.cacheControl = "no-transform"
  /\ decisions = 1
  /\ filter(S)
  /\ ~belowThreshold(S)
  /\ res.contentEncoding = "undefined"
  /\ req.method = "GET"
  /\ negotiate(S) = "gzip"
  /\ Len(taken) = 1
  /\ Body(res.wire) = RawTaken

\* C12: after the decision, a response the filter admitted and that carries no
\* no-transform directive has Accept-Encoding in Vary, whether or not a later test
\* declined compression; a response the filter refused, or one carrying
\* no-transform, has its Vary as the application set it.
C12_VaryAfterDecision ==
  decisions = 1 =>
    IF filter(S) /\ res.cacheControl # "no-transform"
      THEN res.vary
      ELSE res.vary = app.vary

\* C12 witness: a HEAD request declined after the Vary step, Vary set, no stream.
C12_Witness ==
  /\ decisions = 1
  /\ filter(S)
  /\ res.cacheControl # "no-transform"
  /\ ~belowThreshold(S)
  /\ req.method = "HEAD"
  /\ stream = "none"
  /\ res.vary
  /\ ~app.vary

\* the body size is unknown: no Content-Length header and no estimate
SizeUnknown == app.contentLength = Undefined /\ length = Undefined

\* the negotiation of lines 225-237 fails: nothing acceptable, or identity
NegotiationFails == negotiate(S) \in {"false", "identity"}

\* C13 as claimed: after the decision, a response the filter refused (an absent
\* content type under the default filter included), one of unknown size, or one
\* whose negotiation failed, has no stream installed.
C13_UncertainPassThrough ==
  (decisions = 1 /\ (~filter(S) \/ SizeUnknown \/ NegotiationFails)) => stream = "none"

\* C13 amended: the call that runs the decision on a response the filter refused,
\* or whose negotiation fails, returns without error, installs no stream and
\* leaves the wire raw; an unknown size is no reason to decline: when every other
\* test passes, the decision installs a stream.
C13_DeclineOrUnknownSize ==
  [][(decisions = 0 /\ decisions' = 1) =>
       /\ (~filter(S) \/ NegotiationFails) =>
            /\ stream' = "none"
            /\ ev'.err = "none"
            /\ \A i \in 1..Len(res'.wire) : res'.wire[i].enc \in {"identity", "eof"}
       /\ ( /\ res.contentLength = Undefined /\ length' = Undefined
            /\ filter(S) /\ res.cacheControl # "no-transform"
            /\ res.contentEncoding = "undefined" /\ req.method # "HEAD"
            /\ ~NegotiationFails )
            => (stream' = negotiate(S) /\ ev'.err = "none")]_vars

\* C13 witness: write() sent the headers of a response without Content-Length, so
\* no estimate existed, and the decision installed a stream.
C13_Witness ==
  /\ decisions = 1
  /\ SizeUnknown
  /\ ev.op = "write"
  /\ ev.err = "none"
  /\ stream # "none"
  /\ zs.in # <<>>

\* the response passed every test before the negotiation: filter, no-transform,
\* threshold, not already encoded, not HEAD
Eligible ==
  /\ filter(S)
  /\ res.cacheControl # "no-transform"
  /\ ~(Less(app.contentLength, threshold(opts)) \/ Less(length, threshold(opts)))
  /\ app.contentEncoding = "undefined"
  /\ req.method # "HEAD"

\* C14: when the negotiation over br, gzip, deflate, identity yields deflate and
\* the client also accepts gzip, the decision of an eligible response installs a
\* gzip stream: not deflate, and not pass-through.
C14_DeflateYieldsToGzip ==
  ( /\ decisions = 1
    /\ Eligible
    /\ acceptEncoding(req.accept, Encodings) = "deflate"
    /\ acceptEncoding(req.accept, <<"gzip">>) = "gzip" )
    => stream = "gzip"

\* C15: with a stream installed, once the response has ended on a transport that
\* was not destroyed, decoding the body on the wire with the codec named in
\* Content-Encoding yields the payloads of the taken chunks in call order.
C15_RoundTrip ==
  (stream # "none" /\ res.finished /\ ~res.destroyed)
    => Decode(res.contentEncoding, Body(res.wire)) = Buffers(taken)

\* C16: a write() whose chunk is null, or neither a string nor a binary array, is
\* answered by the native write with its null-value or invalid-type error in every
\* state, and changes nothing: no header is sent, no decision runs, nothing
\* reaches the stream, and ended, length, listeners and stream stay as they were.
C16_BadChunkForwarded ==
  [][(ev'.op = "write" /\ nCalls' = nCalls + 1 /\ ~IsChunk(ev'.chunk))
       => /\ ev'.err = IF ev'.chunk.kind = "null" THEN "ERR_STREAM_NULL_VALUES"
                       ELSE "ERR_INVALID_ARG_TYPE"
          /\ UNCHANGED <<ended, length, listeners, stream, res, zs, decisions>>]_vars

\* C16 witness: write(null) on a session whose stream is installed and open was
\* answered with the null-value error and the stream got no input.
C16_Witness ==
  /\ ev.op = "write"
  /\ ev.chunk = NullChunk
  /\ ev.err = "ERR_STREAM_NULL_VALUES"
  /\ stream # "none"
  /\ ~ended
  /\ zs.in = <<>>

\* C17: a 'drain' registration made before the decision is appended to the buffer
\* and registered on neither target; the decision replays the buffer, in order and
\* each entry once, onto the transport when it declines and onto the stream when
\* it installs one; a 'drain' registration made after the decision goes to the
\* target the decision chose and not to the buffer; a registration for another
\* event goes to the transport in every state.
C17_ListenerRouting ==
  [][/\ (ev'.op = "on" /\ nCalls' = nCalls + 1) =>
          \E h \in Handlers :
            LET item == <<ev'.chunk.kind, h>>
            IN /\ item \in Registrations
               /\ IF item[1] # "drain"
                    THEN /\ res'.on = Append(res.on, item)
                         /\ UNCHANGED <<listeners, zs>>
                  ELSE IF decisions = 0
                    THEN /\ listeners'.items = Append(listeners.items, item)
                         /\ UNCHANGED <<res, zs>>
                  ELSE IF stream = "none"
                    THEN /\ res'.on = Append(res.on, item)
                         /\ UNCHANGED <<listeners, zs>>
                  ELSE /\ zs'.on = Append(zs.on, item)
                       /\ UNCHANGED <<listeners, res>>
     /\ (decisions = 0 /\ decisions' = 1) =>
          LET buffered == Registered(listeners.items, "drain")
          IN /\ Registered(res.on, "drain") = <<>>
             /\ Registered(zs.on, "drain") = <<>>
             /\ IF stream' = "none"
                  THEN /\ Registered(res'.on, "drain") = buffered
                       /\ Registered(zs'.on, "drain") = <<>>
                  ELSE /\ Registered(zs'.on, "drain") = buffered
                       /\ AppHandlers(Registered(res'.on, "drain")) = <<>>]_vars

\* C17 witness: two different handlers registered for 'drain' before the decision
\* are on the installed stream, in registration order, and not on the transport.
C17_Witness ==
  /\ decisions = 1
  /\ stream # "none"
  /\ regs.early = <<"h2", "h1">>
  /\ Registered(zs.on, "drain") = <<"h2", "h1">>
  /\ AppHandlers(Registered(res.on, "drain")) = <<>>

\* C18: a stream is installed exactly when Content-Encoding differs from what the
\* application set; then Content-Encoding names the installed codec (br, gzip or
\* deflate) and Content-Length is absent; without a stream Content-Encoding and
\* Content-Length are as the application set them.
C18_HeaderEffects ==
  /\ (stream # "none") <=> (res.contentEncoding # app.contentEncoding)
  /\ stream # "none" =>
       /\ stream \in {"br", "gzip", "deflate"}
       /\ res.contentEncoding = stream
       /\ res.contentLength = Undefined
  /\ stream = "none" =>
       /\ res.contentEncoding = app.contentEncoding
       /\ res.contentLength = app.contentLength

\* C18 witness: a response the application gave Content-Length 1024 was
\* compressed with br and its Content-Length is gone.
C18_Witness ==
  /\ stream = "br"
  /\ app.contentLength = 1024
  /\ res.contentLength = Undefined
  /\ res.contentEncoding = "br"

\* C19: once the transport is finished, no write() or end() of the proxy makes it
\* unfinished, and none runs the native end again (nothing more goes on the wire).
C19_FinishedMonotonic ==
  [][(ev'.op \in {"write", "end"} /\ nCalls' = nCalls + 1 /\ res.finished)
       => (res'.finished /\ res'.wire = res.wire)]_vars

\* C20: the stream gets its end-of-input at most once and no input after it; an
\* end() accepted with a stream installed on a transport that is not destroyed
\* leaves the stream with exactly one end-of-input.
C20_StreamEndOnce ==
  [][/\ zs'.ended <= 1
     /\ zs.ended > 0 => zs'.in = zs.in
     /\ (ev'.op = "end" /\ nCalls' = nCalls + 1 /\ ~res.destroyed /\ stream' # "none")
          => (zs'.ended = 1 /\ ended')]_vars

\* C20 witness: a repeated end() was rejected and the stream still has one
\* end-of-input.
C20_Witness ==
  /\ ev.op = "end"
  /\ ev.err \in FinishedErrors
  /\ stream # "none"
  /\ ~res.destroyed
  /\ zs.ended = 1

====
